---- MODULE Spec2Model ----
(***************************************************************************)
(* AnyLauncher (src/anylauncher.py): the JSON catalog of game records that *)
(* several launcher instances read and rewrite under a file lock, and the  *)
(* launcher that verifies a game file and starts it.                       *)
(*                                                                         *)
(* Spec        two launcher instances working on one catalog file.         *)
(* SpecLaunch  one launcher instance starting games (start_game and the    *)
(*             process registry GAME_PROCESSES).                           *)
(* SpecClose   SpecLaunch with the main window being closed (on_closing).  *)
(* SpecTimeout one instance starting operations while the other holds the  *)
(*             lock.                                                       *)
(* SpecWindow  one instance working on a catalog of three games, with the  *)
(*             main window's label and paths typed into the settings.      *)
(* SpecLegacy  one instance working on a catalog that holds a record       *)
(*             without id field.                                           *)
(* SpecMain    one instance from its start on, with the main window's      *)
(*             handlers (load_last_selected_game, open_game_settings).     *)
(***************************************************************************)
EXTENDS Integers, Sequences, FiniteSets, TLC

\* ------------------------------------------------------------------ bounds
\* Number of records ever imported (uuid4 values ever drawn).
MaxImports == 2
\* Number of start_game calls of one session.
MaxLaunches == 3
\* Number of uuid4 values ever drawn, by import or by a listing.
MaxUuid == 6

\* The launcher instances (OS processes) sharing the catalog file.
Inst == {1, 2}

\* ------------------------------------------------------------ input domains
None == "None"
\* What a game file on disk can be when the program looks at it.
FileStates == {"missing", "unreadable", "v1", "v2"}
\* The games a user registers or edits: the name typed, the path picked in the
\* file dialog, and what the file is when get_file_md5 reads it for the catalog.
GameFiles == {[name |-> "a", path |-> "/g/x.exe", st |-> "v1"],
              [name |-> "b", path |-> "/g/y.html", st |-> "unreadable"]}

\* What a user types into the path entry of the settings window instead of
\* picking the file: a file of the working directory, by its relative path.
TypedFiles == {[name |-> "a", path |-> "x.exe", st |-> "v1"]}

\* ------------------------------------------------------------ pure functions
\* os.path.isabs
isabs(path) == path \notin {"x.exe"}

\* os.path.splitext(os.path.basename(path))[0]
path_stem(path) == IF path = "/g/y.html" THEN "y" ELSE "x"

\* os.path.abspath: a relative path is joined to the working directory.
abspath(path) == IF isabs(path) THEN path ELSE "/cwd/" \o path

\* hashlib.md5 over the file's bytes: one digest per content.
Md5Hex(content) == IF content = "v1" THEN "md5-1" ELSE "md5-2"

\* get_file_md5: None when the file is missing or cannot be read.
get_file_md5(st) ==
    IF st = "missing" THEN None
    ELSE IF st = "unreadable" THEN None
    ELSE Md5Hex(st)

\* os.path.exists of a game file.
path_exists(st) == st # "missing"

\* os.path.splitext(game_path)[1].lower()
file_extension(path) == IF path = "/g/y.html" THEN ".html" ELSE ".exe"

Ids(games) == {games[k].id : k \in DOMAIN games}

\* any(game.get("name") == new_name for game in games)
NameExists(games, name) == \E k \in DOMAIN games : games[k].name = name

\* any(g.get("name") == new_name and g.get("id") != self.game_id for g in games)
NameExistsOther(games, name, id) ==
    \E k \in DOMAIN games : games[k].name = name /\ games[k].id # id

\* The record import_with_new_name appends.
new_game(id, name, path, md5) ==
    [id |-> id, name |-> name, path |-> path, md5 |-> md5, sel |-> FALSE]

\* Fault variant of ImportGames: the new record is put in front.
ImportGamesInFront(games, id, name, path, md5) ==
    <<new_game(id, name, path, md5)>> \o games

\* games.append(new_game)
ImportGames(games, id, name, path, md5) ==
    Append(games, new_game(id, name, path, md5))

\* Fault variant of FirstIndex: falls back to the first record when no record
\* has the id.
FirstIndexOrFirst(games, id) ==
    IF \E k \in DOMAIN games : games[k].id = id
    THEN CHOOSE k \in DOMAIN games :
            /\ games[k].id = id
            /\ \A j \in 1..(k - 1) : games[j].id # id
    ELSE IF Len(games) > 0 THEN 1 ELSE 0

\* Index of the first record with this id, 0 when there is none
\* (the for/enumerate loop of save_settings, left by break).
FirstIndex(games, id) ==
    IF \E k \in DOMAIN games : games[k].id = id
    THEN CHOOSE k \in DOMAIN games :
            /\ games[k].id = id
            /\ \A j \in 1..(k - 1) : games[j].id # id
    ELSE 0

\* Fault variant of UpdateGames: the rewritten record loses its selection flag.
UpdateGamesDropsSel(games, id, name, path, md5) ==
    LET i == FirstIndex(games, id)
    IN  [games EXCEPT ![i] = [@ EXCEPT !.name = name, !.path = path, !.md5 = md5,
                                       !.sel = FALSE]]

UpdateGames(games, id, name, path, md5) ==
    LET i == FirstIndex(games, id)
    IN  [games EXCEPT ![i] = [@ EXCEPT !.name = name, !.path = path, !.md5 = md5]]

\* Fault variant of KeepOthers: the comparison is inverted.
KeepOthersInverted(game, id) == game.id = id

\* The filter of delete_game's list comprehension.
KeepOthers(game, id) == game.id # id

\* games = [game for game in games if game.get("id") != selected_game["id"]]
DeleteGames(games, id) ==
    LET Keep(g) == KeepOthers(g, id) IN SelectSeq(games, Keep)

\* Fault variant of SelectedFlag: the flag is set but never cleared.
SelectedFlagSticky(game, id) == game.sel \/ game.id = id

\* game["is_last_selected"] = (game.get("id") == selected_game_id)
SelectedFlag(game, id) == game.id = id

SelectGames(games, id) ==
    [k \in DOMAIN games |-> [games[k] EXCEPT !.sel = SelectedFlag(games[k], id)]]

\* Fault variant of SortSelectedFirst: the key is not negated.
SortSelectedLast(games) ==
    LET IsSel(g) == g.sel
        NotSel(g) == ~g.sel
    IN  SelectSeq(games, NotSel) \o SelectSeq(games, IsSel)

\* current_games.sort(key=lambda x: not x["is_last_selected"]): stable, the
\* records with is_last_selected first.
SortSelectedFirst(games) ==
    LET IsSel(g) == g.sel
        NotSel(g) == ~g.sel
    IN  SelectSeq(games, IsSel) \o SelectSeq(games, NotSel)

\* What the handlers of the Select window read back from an entry of
\* current_games: its id and its name.
Entry(game) == [id |-> game.id, name |-> game.name]

\* game.get("id") of a record whose id field is missing in the file.
NoId == 0

\* The legacy records of a list: those without an id field.
Legacy(games) == {k \in DOMAIN games : games[k].id = NoId}

\* game.get("id", str(uuid.uuid4())): a record without id is listed under a
\* fresh uuid4 (next, next + 1, ... in file order), the others under their own.
Heal(games, next) ==
    [k \in DOMAIN games |->
        IF games[k].id = NoId
        THEN [games[k] EXCEPT
                 !.id = next + Cardinality({j \in 1..(k - 1) : games[j].id = NoId})]
        ELSE games[k]]

\* load_games on the parsed list, with `next` the next uuid4 value.
ListOf(games, next) ==
    LET sorted == SortSelectedFirst(Heal(games, next))
    IN  [k \in DOMAIN sorted |-> Entry(sorted[k])]

\* get_last_selected_game returning None.
NoGame == [found |-> FALSE, path |-> "", md5 |-> None]

\* get_last_selected_game on the parsed list: path and md5 of the first record
\* with is_last_selected, None when there is none.
FirstSelected(games) ==
    IF \E k \in DOMAIN games : games[k].sel
    THEN LET k == CHOOSE k \in DOMAIN games :
                     games[k].sel /\ \A j \in 1..(k - 1) : ~games[j].sel
         IN  [found |-> TRUE, path |-> games[k].path, md5 |-> games[k].md5]
    ELSE NoGame

\* ------------------------------------------------------------------- state
VARIABLES
    file,           \* games.json: [st: absent | ok | corrupt, recs: the records]
    lock,           \* games.lock: 0 when free, else the instance holding it
    nextId,         \* the next uuid4 value
    pc,             \* per instance: where its running handler is
    op,             \* per instance: the operation of the running (or last) handler
    games,          \* per instance: the handler's local list `games`
    outcome,        \* per instance: how the running (or last) handler ended
    pre,            \* per instance: the file as it was when the handler read it
    selectOpen,     \* per instance: a Select window exists (Select.instance)
    current_games,  \* per instance: Select.current_games
    deleted,        \* history: ids removed by a successful delete_game
    GAME_PROCESSES, \* the process registry of the launching instance
    browserTabs,    \* pages handed to webbrowser.open_new_tab and opened
    launches,       \* number of start_game calls so far
    lastLaunch,     \* the last start_game call: its inputs and its return value
    startedExe,     \* history: launches of non-HTML files that returned 1
    closeLog,       \* on_closing: what was done to each handle of the registry
    label           \* per instance: the main window's selected_game_label

catalogVars == <<file, lock, nextId, pc, op, games, outcome, pre, selectOpen,
                 current_games, deleted>>
launchVars == <<GAME_PROCESSES, browserTabs, launches, lastLaunch, startedExe,
                closeLog>>
vars == <<file, lock, nextId, pc, op, games, outcome, pre, selectOpen,
          current_games, deleted,
          GAME_PROCESSES, browserTabs, launches, lastLaunch, startedExe,
          closeLog, label>>

\* id, name, path, md5: what the handler was given; orig: the name of the entry
\* of current_games it was started on.
NoOp == [kind |-> "none", id |-> 0, name |-> "", path |-> "", md5 |-> None,
         orig |-> ""]

\* The text of a main window's label with no game selected ("未选择游戏").
NoGameLabel == "no game selected"

\* A label: the text it shows, and the text the tail of the running handler
\* sets once its load_games has returned (the shown text when none is due).
NoLabel == [text |-> NoGameLabel, after |-> NoGameLabel]
NoLaunch == [path |-> "", md5 |-> None, st |-> "missing", env |-> "ok", result |-> 0]

AbsentFile == [st |-> "absent", recs |-> <<>>]
\* An empty or partly written games.json: json.load raises JSONDecodeError.
CorruptFile == [st |-> "corrupt", recs |-> <<>>]
OkFile(recs) == [st |-> "ok", recs |-> recs]

Init ==
    /\ file = AbsentFile
    /\ lock = 0
    /\ nextId = 1
    /\ pc = [i \in Inst |-> "idle"]
    /\ op = [i \in Inst |-> NoOp]
    /\ games = [i \in Inst |-> <<>>]
    /\ outcome = [i \in Inst |-> "none"]
    /\ pre = [i \in Inst |-> AbsentFile]
    /\ selectOpen = [i \in Inst |-> FALSE]
    /\ current_games = [i \in Inst |-> <<>>]
    /\ deleted = {}
    /\ GAME_PROCESSES = <<>>
    /\ browserTabs = <<>>
    /\ launches = 0
    /\ lastLaunch = NoLaunch
    /\ startedExe = <<>>
    /\ closeLog = <<>>
    /\ label = [i \in Inst |-> NoLabel]


\* -------------------------------------------------------- the catalog file
\* json.load of the existing file; [] when os.path.exists is false.
ReadGames == IF file.st = "ok" THEN file.recs ELSE <<>>

\* FileLock(LOCK_FILE_PATH, timeout=5).acquire succeeds when nobody holds it.
LockFree == lock = 0

Idle(i) == pc[i] = "idle"

\* What stays as it is while instance i runs a step of a catalog handler.
Frame(i) == UNCHANGED <<selectOpen, current_games, launchVars, label>>

\* `return` inside the with block once the locked section has decided `o`.
Decide(i, o) ==
    /\ pc' = [pc EXCEPT ![i] = "exit"]
    /\ outcome' = [outcome EXCEPT ![i] = o]

\* The handler goes on to its next step `p`.
Goto(i, p) ==
    /\ pc' = [pc EXCEPT ![i] = p]
    /\ outcome' = [outcome EXCEPT ![i] = "none"]

\* Entering the with block: the lock is taken and the file is read.
Acquire(i, o) ==
    /\ LockFree
    /\ lock' = i
    /\ op' = [op EXCEPT ![i] = o]
    /\ pre' = [pre EXCEPT ![i] = file]
    /\ UNCHANGED <<file, deleted>>
    /\ Frame(i)

\* A handler of the Select window, or of a window opened from it, enters its
\* with block.
Enter(i, o) ==
    /\ Idle(i)
    /\ selectOpen[i]
    /\ Acquire(i, o)

\* ------------------------------------------------- import_with_new_name
\* games.append(new_game) with a fresh uuid4.
AppendNew(i, list, o) ==
    /\ games' = [games EXCEPT ![i] = ImportGames(list, nextId, o.name, o.path, o.md5)]
    /\ op' = [op EXCEPT ![i] = [o EXCEPT !.id = nextId]]
    /\ nextId' = nextId + 1

BeginImport(i) ==
    /\ nextId <= MaxImports
    /\ Idle(i) /\ selectOpen[i] /\ LockFree
    /\ \E g \in GameFiles :
        LET name == g.name
            o == [kind |-> "import", id |-> 0, name |-> name, path |-> g.path,
                  md5 |-> get_file_md5(g.st), orig |-> ""]
        IN  /\ lock' = i
            /\ pre' = [pre EXCEPT ![i] = file]
            /\ UNCHANGED <<file, deleted>>
            /\ Frame(i)
            /\ IF file.st = "corrupt"
               THEN /\ Goto(i, "askCorrupt")
                    /\ op' = [op EXCEPT ![i] = o]
                    /\ UNCHANGED <<games, nextId>>
               ELSE IF NameExists(ReadGames, name)
               THEN /\ Goto(i, "askDup")
                    /\ op' = [op EXCEPT ![i] = o]
                    /\ games' = [games EXCEPT ![i] = ReadGames]
                    /\ UNCHANGED nextId
               ELSE /\ Goto(i, "write")
                    /\ AppendNew(i, ReadGames, o)

\* askyesno("配置文件损坏，是否清空重新创建？"), asked while the lock is held.
AnswerCorrupt(i) ==
    /\ pc[i] = "askCorrupt"
    /\ UNCHANGED <<file, lock, pre, deleted>>
    /\ Frame(i)
    /\ \E yes \in BOOLEAN :
        IF yes
        THEN /\ Goto(i, "write")
             /\ AppendNew(i, <<>>, op[i])
        ELSE /\ Decide(i, "Cancelled")
             /\ UNCHANGED <<games, op, nextId>>

\* askyesno("名称已存在，是否继续？"), asked while the lock is held.
AnswerDup(i) ==
    /\ pc[i] = "askDup"
    /\ UNCHANGED <<file, lock, pre, deleted>>
    /\ Frame(i)
    /\ \E yes \in BOOLEAN :
        IF ~yes
        THEN /\ Decide(i, "Cancelled")
             /\ UNCHANGED <<games, op, nextId>>
        ELSE IF op[i].kind = "import"
        THEN /\ Goto(i, "write")
             /\ AppendNew(i, games[i], op[i])
        ELSE /\ Goto(i, "write")
             /\ games' = [games EXCEPT ![i] =
                    UpdateGames(games[i], op[i].id, op[i].name, op[i].path, op[i].md5)]
             /\ UNCHANGED <<op, nextId>>

\* ------------------------------------------------------- save_settings
\* The locked section of save_settings up to the question or the write.
Save(i, o) ==
    IF file.st = "corrupt"
    THEN /\ Decide(i, "CorruptCatalog")
         /\ UNCHANGED games
    ELSE IF FirstIndex(ReadGames, o.id) = 0
    THEN /\ Decide(i, "NotFound")
         /\ games' = [games EXCEPT ![i] = ReadGames]
    ELSE IF NameExistsOther(ReadGames, o.name, o.id)
    THEN /\ Goto(i, "askDup")
         /\ games' = [games EXCEPT ![i] = ReadGames]
    ELSE /\ Goto(i, "write")
         /\ games' = [games EXCEPT ![i] =
                UpdateGames(ReadGames, o.id, o.name, o.path, o.md5)]

\* The settings window was opened on current_games[idx]; new_path, the text
\* of the path entry, exists and is hashed before the lock is taken.
SaveSettings(i, idx, new_name, new_path, st) ==
    LET o == [kind |-> "update", id |-> current_games[i][idx].id,
              name |-> new_name, path |-> new_path,
              md5 |-> get_file_md5(st), orig |-> current_games[i][idx].name]
    IN  /\ Enter(i, o)
        /\ UNCHANGED nextId
        /\ Save(i, o)

\* save_settings on a path picked with browse_path, which puts
\* os.path.abspath(filename) into the path entry.
BeginUpdate(i) ==
    \E idx \in DOMAIN current_games[i], g \in GameFiles :
        SaveSettings(i, idx, g.name, abspath(g.path), g.st)

\* save_settings on a path typed into the path entry.
BeginUpdateTyped(i) ==
    \E idx \in DOMAIN current_games[i], g \in TypedFiles :
        /\ path_exists(g.st)
        /\ SaveSettings(i, idx, g.name, g.path, g.st)

\* --------------------------------------------------------- delete_game
BeginDelete(i) ==
    \E idx \in DOMAIN current_games[i] :
        LET id == current_games[i][idx].id
            o == [NoOp EXCEPT !.kind = "delete", !.id = id,
                              !.orig = current_games[i][idx].name]
            kept == DeleteGames(ReadGames, id)
        IN  /\ Enter(i, o)
            /\ UNCHANGED nextId
            /\ games' = [games EXCEPT ![i] = kept]
            /\ IF file.st = "corrupt"
               THEN Decide(i, "ReadFailed")
               ELSE IF Len(kept) = Len(ReadGames)
               THEN Decide(i, "NotFound")
               ELSE Goto(i, "write")

\* ------------------------------------------------------ save_and_close
BeginSelect(i) ==
    \E idx \in DOMAIN current_games[i] :
        LET id == current_games[i][idx].id
            o == [NoOp EXCEPT !.kind = "select", !.id = id,
                              !.orig = current_games[i][idx].name]
        IN  /\ Enter(i, o)
            /\ UNCHANGED nextId
            /\ games' = [games EXCEPT ![i] = SelectGames(ReadGames, id)]
            /\ IF file.st = "corrupt"
               THEN Decide(i, "ReadFailed")
               ELSE Goto(i, "write")

\* ------------------------------------------------------------ the write
\* What an operation makes of a catalog.
Apply(o, list) ==
    IF o.kind = "import" THEN ImportGames(list, o.id, o.name, o.path, o.md5)
    ELSE IF o.kind = "update"
    THEN IF FirstIndex(list, o.id) = 0 THEN list
         ELSE UpdateGames(list, o.id, o.name, o.path, o.md5)
    ELSE IF o.kind = "delete" THEN DeleteGames(list, o.id)
    ELSE SelectGames(list, o.id)

\* with open(games_data_file, 'w') as f: json.dump(games, f): open truncates
\* the file and json.dump writes the new text, all before the lock is
\* released.  PermissionError: open failed, the file is as it was.  Any other
\* exception: raised after open truncated the file.
WriteOk(i) ==
    /\ pc[i] = "write"
    /\ file' = OkFile(games[i])
    /\ deleted' = IF op[i].kind = "delete" THEN deleted \cup {op[i].id} ELSE deleted
    /\ Decide(i, "ok")
    /\ UNCHANGED <<lock, nextId, op, games, pre>>
    /\ Frame(i)

WritePermissionError(i) ==
    /\ pc[i] = "write"
    /\ Decide(i, "PermissionDenied")
    /\ UNCHANGED <<file, deleted, lock, nextId, op, games, pre>>
    /\ Frame(i)

WriteException(i) ==
    /\ pc[i] = "write"
    /\ file' = CorruptFile
    /\ Decide(i, "WriteFailed")
    /\ UNCHANGED <<deleted, lock, nextId, op, games, pre>>
    /\ Frame(i)

\* ---------------------------------------------- leaving the with block
\* Fault variant of Release: the lock is still held when the tail runs.
ReleaseLate(i, held) == held

\* FileLock.__exit__: what becomes of the lock, held by `held`, when instance
\* i leaves its with block.
Release(i, held) == IF held = i THEN 0 ELSE held

\* FileLock.__exit__ releases the lock; then the handler's tail up to its next
\* wait for the lock, as far as the Select window goes: after a successful
\* selection the window closes; after a successful import, update or delete
\* load_games is called when there is a Select window, and it clears the list
\* first.
Leave(i) ==
    /\ pc[i] = "exit"
    /\ lock' = Release(i, lock)
    /\ op' = [op EXCEPT ![i] = NoOp]
    /\ games' = [games EXCEPT ![i] = <<>>]
    /\ outcome' = [outcome EXCEPT ![i] = "none"]
    /\ pre' = [pre EXCEPT ![i] = AbsentFile]
    /\ UNCHANGED <<file, nextId, deleted, launchVars>>
    /\ IF outcome[i] # "ok"
       THEN /\ pc' = [pc EXCEPT ![i] = "idle"]
            /\ UNCHANGED <<selectOpen, current_games>>
       ELSE IF op[i].kind = "select"
       THEN /\ pc' = [pc EXCEPT ![i] = "idle"]
            /\ selectOpen' = [selectOpen EXCEPT ![i] = FALSE]
            /\ current_games' = [current_games EXCEPT ![i] = <<>>]
       ELSE IF ~selectOpen[i]
       THEN /\ pc' = [pc EXCEPT ![i] = "idle"]
            /\ UNCHANGED <<selectOpen, current_games>>
       ELSE /\ pc' = [pc EXCEPT ![i] = "refresh"]
            /\ current_games' = [current_games EXCEPT ![i] = <<>>]
            /\ UNCHANGED selectOpen

\* Leave, with the main window's label left out of the account.
Exit(i) ==
    /\ Leave(i)
    /\ UNCHANGED label

\* update_selected_game_label(game_name)
Shown(game_name) ==
    LET text == IF game_name # "" THEN game_name ELSE NoGameLabel
    IN  [text |-> text, after |-> text]

\* The label the tail of save_settings and of delete_game leaves once
\* load_games has returned: save_settings renames a label that shows the
\* entry's old name, delete_game clears a label that shows the deleted
\* entry's name.
LabelAfter(o, text) ==
    IF o.kind = "update" /\ text = o.orig THEN o.name
    ELSE IF o.kind = "delete" /\ text = o.orig THEN NoGameLabel
    ELSE text

\* Leave, with the main window's label: save_and_close shows the name of the
\* chosen entry right away; save_settings and delete_game change the label
\* after the reload.
ExitLabelled(i) ==
    /\ Leave(i)
    /\ label' = [label EXCEPT ![i] =
          IF outcome[i] # "ok" THEN @
          ELSE IF op[i].kind = "select" THEN Shown(op[i].orig)
          ELSE IF ~selectOpen[i] THEN Shown(LabelAfter(op[i], @.text))
          ELSE [text |-> @.text, after |-> LabelAfter(op[i], @.text)]]

\* ----------------------------------------------------------- load_games
\* The list load_games builds from the file.
LoadGames == ListOf(ReadGames, nextId)

\* load_games run to its end: no lock is taken when the file does not exist.
\* Every listing draws new uuid4 values for the records without id.
Listed(i) ==
    /\ file.st = "absent" \/ LockFree
    /\ Legacy(ReadGames) # {} =>
          nextId + Cardinality(Legacy(ReadGames)) <= MaxUuid + 1
    /\ current_games' = [current_games EXCEPT ![i] = LoadGames]
    /\ nextId' = nextId + Cardinality(Legacy(ReadGames))
    /\ pc' = [pc EXCEPT ![i] = "idle"]
    /\ outcome' = [outcome EXCEPT ![i] = "none"]
    /\ UNCHANGED <<file, lock, op, games, pre, deleted, launchVars>>

\* Fault variant of TimedOutList: the file is read without the lock.
TimedOutListReads(i) == LoadGames

\* The list after a load_games that did not get the lock: cleared before the
\* lock was asked for, and the with block that reads the file is skipped.
TimedOutList(i) == <<>>

\* load_games when the lock is not free within the timeout: filelock.Timeout
\* leaves the handler.
ListTimeout(i) ==
    /\ file.st # "absent" /\ ~LockFree
    /\ current_games' = [current_games EXCEPT ![i] = TimedOutList(i)]
    /\ pc' = [pc EXCEPT ![i] = "idle"]
    /\ outcome' = [outcome EXCEPT ![i] = "LockTimeout"]
    /\ UNCHANGED <<file, lock, nextId, op, games, pre, deleted, launchVars>>

\* The reload at the end of a handler, as far as the Select window goes.
Reloaded(i) ==
    /\ pc[i] = "refresh"
    /\ Listed(i) \/ ListTimeout(i)
    /\ UNCHANGED selectOpen

\* Reloaded, with the main window's label left out of the account.
Reload(i) ==
    /\ Reloaded(i)
    /\ UNCHANGED label

\* Reloaded, with the main window's label: the label changes after load_games
\* has returned; a filelock.Timeout of load_games skips the rest of the tail.
ReloadLabelled(i) ==
    /\ Reloaded(i)
    /\ label' = [label EXCEPT ![i] =
          IF file.st # "absent" /\ ~LockFree
          THEN [text |-> @.text, after |-> @.text]
          ELSE [text |-> @.after, after |-> @.after]]

\* AdaptiveApp.open_select_window: Select.__init__ ends with load_games.
OpenSelect(i) ==
    /\ Idle(i)
    /\ ~selectOpen[i]
    /\ selectOpen' = [selectOpen EXCEPT ![i] = TRUE]
    /\ Listed(i) \/ ListTimeout(i)
    /\ UNCHANGED label

\* The refresh button of the Select window.
RefreshList(i) ==
    /\ Idle(i)
    /\ selectOpen[i]
    /\ current_games[i] # LoadGames
    /\ Listed(i)
    /\ UNCHANGED <<selectOpen, label>>

\* Select.on_close
CloseSelect(i) ==
    /\ Idle(i)
    /\ selectOpen[i]
    /\ selectOpen' = [selectOpen EXCEPT ![i] = FALSE]
    /\ current_games' = [current_games EXCEPT ![i] = <<>>]
    /\ outcome' = [outcome EXCEPT ![i] = "none"]
    /\ UNCHANGED <<file, lock, nextId, pc, op, games, pre, deleted,
                   launchVars, label>>

Next ==
    \E i \in Inst :
        \/ OpenSelect(i)
        \/ RefreshList(i)
        \/ CloseSelect(i)
        \/ BeginImport(i)
        \/ AnswerCorrupt(i)
        \/ AnswerDup(i)
        \/ BeginUpdate(i)
        \/ BeginDelete(i)
        \/ BeginSelect(i)
        \/ WriteOk(i)
        \/ WritePermissionError(i)
        \/ WriteException(i)
        \/ Exit(i)
        \/ Reload(i)

Spec == Init /\ [][Next]_vars


\* ------------------------------------------------------- filelock.Timeout
\* Another process holds the lock for the whole acquisition timeout.
HeldByOther(i) == lock # 0 /\ lock # i

\* `with FileLock(LOCK_FILE_PATH, timeout=5)` raises filelock.Timeout: the
\* body of the with block is skipped and the exception leaves the handler.
Timeout(i, kind) ==
    /\ Idle(i)
    /\ HeldByOther(i)
    /\ op' = [op EXCEPT ![i] = [NoOp EXCEPT !.kind = kind]]
    /\ outcome' = [outcome EXCEPT ![i] = "LockTimeout"]
    /\ UNCHANGED <<file, lock, nextId, pc, games, pre, deleted>>
    /\ Frame(i)

\* import_with_new_name: the import button is in the Select window.
ImportTimeout(i) == selectOpen[i] /\ Timeout(i, "import")

\* save_settings, delete_game, save_and_close on an entry of the list.
UpdateTimeout(i) == selectOpen[i] /\ current_games[i] # <<>> /\ Timeout(i, "update")

DeleteTimeout(i) == selectOpen[i] /\ current_games[i] # <<>> /\ Timeout(i, "delete")

SelectTimeout(i) == selectOpen[i] /\ current_games[i] # <<>> /\ Timeout(i, "select")

\* start_selected_game: get_last_selected_game asks for the lock when the
\* file exists.
GetSelectedTimeout(i) == file.st # "absent" /\ Timeout(i, "getSelected")

\* Instance 2 imports games and keeps the lock while it waits for its user or
\* writes; the user of instance 1 opens the Select window and starts
\* operations while the lock is held.
NextTimeout ==
    \/ OpenSelect(2)
    \/ BeginImport(2)
    \/ AnswerDup(2)
    \/ WriteOk(2)
    \/ WritePermissionError(2)
    \/ Exit(2)
    \/ Reload(2)
    \/ OpenSelect(1)
    \/ CloseSelect(1)
    \/ ImportTimeout(1)
    \/ UpdateTimeout(1)
    \/ DeleteTimeout(1)
    \/ SelectTimeout(1)
    \/ GetSelectedTimeout(1)

SpecTimeout == Init /\ [][NextTimeout]_vars


\* -------------------------------------------------------- the main window
\* A launcher is started on a catalog of three imported games, two of them
\* under the same name, none selected.
InitWindow ==
    /\ file = OkFile(<<new_game(1, "a", "/g/x.exe", Md5Hex("v1")),
                       new_game(2, "a", "/g/x.exe", Md5Hex("v1")),
                       new_game(3, "b", "/g/y.html", None)>>)
    /\ lock = 0
    /\ nextId = 4
    /\ pc = [i \in Inst |-> "idle"]
    /\ op = [i \in Inst |-> NoOp]
    /\ games = [i \in Inst |-> <<>>]
    /\ outcome = [i \in Inst |-> "none"]
    /\ pre = [i \in Inst |-> AbsentFile]
    /\ selectOpen = [i \in Inst |-> FALSE]
    /\ current_games = [i \in Inst |-> <<>>]
    /\ deleted = {}
    /\ GAME_PROCESSES = <<>>
    /\ browserTabs = <<>>
    /\ launches = 0
    /\ lastLaunch = NoLaunch
    /\ startedExe = <<>>
    /\ closeLog = <<>>
    /\ label = [i \in Inst |-> NoLabel]

\* The user of the one running launcher selects, edits and deletes games.
NextWindow ==
    \/ OpenSelect(1)
    \/ CloseSelect(1)
    \/ BeginSelect(1)
    \/ BeginUpdate(1)
    \/ BeginUpdateTyped(1)
    \/ BeginDelete(1)
    \/ AnswerDup(1)
    \/ WriteOk(1)
    \/ WritePermissionError(1)
    \/ ExitLabelled(1)
    \/ ReloadLabelled(1)

SpecWindow == InitWindow /\ [][NextWindow]_vars


\* ------------------------------------------------------- legacy records
\* A record as an older games.json holds it: no id field.
legacy_game(name, path, md5, sel) ==
    [id |-> NoId, name |-> name, path |-> path, md5 |-> md5, sel |-> sel]

\* A launcher is started on a catalog whose first record, the selected one,
\* has no id field; the second was imported by this version.
InitLegacy ==
    /\ file = OkFile(<<legacy_game("a", "/g/x.exe", None, TRUE),
                       new_game(1, "b", "/g/y.html", None)>>)
    /\ lock = 0
    /\ nextId = 2
    /\ pc = [i \in Inst |-> "idle"]
    /\ op = [i \in Inst |-> NoOp]
    /\ games = [i \in Inst |-> <<>>]
    /\ outcome = [i \in Inst |-> "none"]
    /\ pre = [i \in Inst |-> AbsentFile]
    /\ selectOpen = [i \in Inst |-> FALSE]
    /\ current_games = [i \in Inst |-> <<>>]
    /\ deleted = {}
    /\ GAME_PROCESSES = <<>>
    /\ browserTabs = <<>>
    /\ launches = 0
    /\ lastLaunch = NoLaunch
    /\ startedExe = <<>>
    /\ closeLog = <<>>
    /\ label = [i \in Inst |-> Shown("a")]

\* The user of the one running launcher lists, selects, edits and deletes.
NextLegacy ==
    \/ OpenSelect(1)
    \/ RefreshList(1)
    \/ CloseSelect(1)
    \/ BeginSelect(1)
    \/ BeginUpdate(1)
    \/ BeginDelete(1)
    \/ AnswerDup(1)
    \/ WriteOk(1)
    \/ Exit(1)
    \/ Reload(1)

SpecLegacy == InitLegacy /\ [][NextLegacy]_vars


\* ------------------------------------------------------------ start_game
\* `if game_md5:` a stored digest is checked unless it is None or empty.
Md5Present(md5) == md5 # None /\ md5 # ""

\* What subprocess.Popen can do: start the process, or raise.
SpawnOutcomes == {"ok", "PermissionError", "FileNotFoundError", "Exception"}
\* What webbrowser.open_new_tab can do: open the page and return True, return
\* False because no browser took the page, or raise.
OpenOutcomes == {"ok", "notOpened", "Exception"}

EnvOutcomes(path) ==
    IF file_extension(path) = ".html" THEN OpenOutcomes ELSE SpawnOutcomes

\* Fault variant of Md5Mismatch: a file whose hash cannot be computed passes.
Md5MismatchSkipsNone(md5, st) ==
    Md5Present(md5) /\ get_file_md5(st) # None /\ get_file_md5(st) # md5

\* Step 2 of start_game: the MD5 check fails.
Md5Mismatch(md5, st) == Md5Present(md5) /\ get_file_md5(st) # md5

\* The value start_game returns: 1 started, -1 launch failed, -2 file missing,
\* -3 integrity check failed.
StartResult(path, md5, st, env) ==
    IF ~path_exists(st) THEN -2
    ELSE IF Md5Mismatch(md5, st) THEN -3
    ELSE IF file_extension(path) = ".html"
    THEN IF env = "Exception" THEN -1 ELSE 1
    ELSE IF env = "ok" THEN 1 ELSE -1

\* Fault variant of Registers: the handle is recorded whatever Popen did.
RegistersBeforeSpawn(path, md5, st, env) ==
    /\ path_exists(st)
    /\ ~Md5Mismatch(md5, st)
    /\ file_extension(path) # ".html"

\* GAME_PROCESSES.append(proc): only after Popen returned a handle.
Registers(path, md5, st, env) ==
    /\ path_exists(st)
    /\ ~Md5Mismatch(md5, st)
    /\ file_extension(path) # ".html"
    /\ env = "ok"

\* A page is shown in the browser.
OpensPage(path, md5, st, env) ==
    /\ path_exists(st)
    /\ ~Md5Mismatch(md5, st)
    /\ file_extension(path) = ".html"
    /\ env = "ok"

\* start_game(game_path, game_md5) with the game file in state st and the
\* operating system answering the spawn or the open with env.
start_game(path, md5, st, env) ==
    LET result == StartResult(path, md5, st, env)
        n == launches + 1
    IN  /\ launches' = n
        /\ lastLaunch' = [path |-> path, md5 |-> md5, st |-> st, env |-> env,
                          result |-> result]
        /\ GAME_PROCESSES' = IF Registers(path, md5, st, env)
                             THEN Append(GAME_PROCESSES, n) ELSE GAME_PROCESSES
        /\ browserTabs' = IF OpensPage(path, md5, st, env)
                          THEN Append(browserTabs, n) ELSE browserTabs
        /\ startedExe' = IF result = 1 /\ file_extension(path) # ".html"
                         THEN Append(startedExe, n) ELSE startedExe

\* get_last_selected_game: None when the file does not exist or is malformed.
get_last_selected_game == FirstSelected(ReadGames)

\* AdaptiveApp.start_selected_game
StartSelectedGame ==
    /\ launches < MaxLaunches
    /\ Idle(1)
    /\ file.st = "absent" \/ LockFree
    /\ get_last_selected_game.found
    /\ LET last_game == get_last_selected_game
       IN  /\ last_game.path # ""
           /\ \E st \in FileStates, env \in EnvOutcomes(last_game.path) :
                 start_game(last_game.path, last_game.md5, st, env)
    /\ UNCHANGED <<catalogVars, closeLog, label>>

\* Digests a record can hold: import stores get_file_md5 of the chosen file.
StoredMd5 == {None, Md5Hex("v1")}

\* A launcher is started on a catalog of two imported games, a program and an
\* HTML page, each with or without a stored digest; the first is selected.
InitLaunch ==
    /\ \E m1 \in StoredMd5, m2 \in StoredMd5 :
          file = OkFile(<<[id |-> 1, name |-> "a", path |-> "/g/x.exe",
                           md5 |-> m1, sel |-> TRUE],
                          [id |-> 2, name |-> "b", path |-> "/g/y.html",
                           md5 |-> m2, sel |-> FALSE]>>)
    /\ lock = 0
    /\ nextId = 3
    /\ pc = [i \in Inst |-> "idle"]
    /\ op = [i \in Inst |-> NoOp]
    /\ games = [i \in Inst |-> <<>>]
    /\ outcome = [i \in Inst |-> "none"]
    /\ pre = [i \in Inst |-> AbsentFile]
    /\ selectOpen = [i \in Inst |-> FALSE]
    /\ current_games = [i \in Inst |-> <<>>]
    /\ deleted = {}
    /\ GAME_PROCESSES = <<>>
    /\ browserTabs = <<>>
    /\ launches = 0
    /\ lastLaunch = NoLaunch
    /\ startedExe = <<>>
    /\ closeLog = <<>>
    /\ label = [i \in Inst |-> [text |-> "a", after |-> "a"]]

\* The user starts the selected game, or selects another one first.
NextLaunch ==
    \/ StartSelectedGame
    \/ OpenSelect(1)
    \/ BeginSelect(1)
    \/ WriteOk(1)
    \/ Exit(1)

SpecLaunch == InitLaunch /\ [][NextLaunch]_vars


\* ------------------------------------------------------------ on_closing
\* What proc.terminate() followed by proc.wait(timeout=3) can do to a handle:
\* both return, wait raises TimeoutExpired, or terminate raises and wait is
\* never called.
TerminateOutcomes == {"ok", "TimeoutExpired", "terminateRaised"}

\* The entry of closeLog for a handle.
Terminated(proc, out) ==
    [proc |-> proc, terminate |-> TRUE, wait |-> out # "terminateRaised",
     out |-> out]

\* Fault variant of AfterHandle: an exception of terminate or wait leaves
\* on_closing, and the window stays.
AfterHandleRaises(out) == IF out = "ok" THEN "terminating" ELSE "idle"

\* try: ... except Exception: pass: the loop goes on with the next handle
\* whatever terminate and wait did.
AfterHandle(out) == "terminating"

\* The Select window, if there is one, and the main window are destroyed.
Destroy ==
    /\ pc' = [pc EXCEPT ![1] = "destroyed"]
    /\ selectOpen' = [selectOpen EXCEPT ![1] = FALSE]
    /\ current_games' = [current_games EXCEPT ![1] = <<>>]

\* The user closes the main window: with an empty registry nothing is asked.
OnClosing ==
    /\ Idle(1)
    /\ closeLog' = <<>>
    /\ IF GAME_PROCESSES # <<>>
       THEN /\ pc' = [pc EXCEPT ![1] = "askClose"]
            /\ UNCHANGED <<selectOpen, current_games>>
       ELSE Destroy
    /\ UNCHANGED <<file, lock, nextId, op, games, outcome, pre, deleted,
                   GAME_PROCESSES, browserTabs, launches, lastLaunch, startedExe, label>>

\* askyesno("是否关闭所有已启动的游戏？"): yes starts the loop over the
\* registry, no goes on to destroy the windows.
AnswerClose ==
    /\ pc[1] = "askClose"
    /\ \E yes \in BOOLEAN :
          IF yes
          THEN /\ pc' = [pc EXCEPT ![1] = "terminating"]
               /\ UNCHANGED <<selectOpen, current_games>>
          ELSE Destroy
    /\ UNCHANGED <<file, lock, nextId, op, games, outcome, pre, deleted,
                   launchVars, label>>

\* One turn of `for proc in GAME_PROCESSES`.
TerminateNext ==
    /\ pc[1] = "terminating"
    /\ Len(closeLog) < Len(GAME_PROCESSES)
    /\ \E out \in TerminateOutcomes :
          /\ closeLog' = Append(closeLog,
                 Terminated(GAME_PROCESSES[Len(closeLog) + 1], out))
          /\ pc' = [pc EXCEPT ![1] = AfterHandle(out)]
    /\ UNCHANGED <<file, lock, nextId, op, games, outcome, pre, deleted,
                   selectOpen, current_games,
                   GAME_PROCESSES, browserTabs, launches, lastLaunch, startedExe, label>>

\* The loop is over: the windows are destroyed.
FinishClosing ==
    /\ pc[1] = "terminating"
    /\ Len(closeLog) = Len(GAME_PROCESSES)
    /\ Destroy
    /\ UNCHANGED <<file, lock, nextId, op, games, outcome, pre, deleted,
                   launchVars, label>>

NextClose ==
    \/ StartSelectedGame
    \/ OpenSelect(1)
    \/ BeginSelect(1)
    \/ WriteOk(1)
    \/ Exit(1)
    \/ OnClosing
    \/ AnswerClose
    \/ TerminateNext
    \/ FinishClosing

\* on_closing is one synchronous handler: terminate returns or raises, wait
\* returns or raises within 3 seconds, so every turn of the loop and the
\* destroy after it are taken.  Nothing makes the user answer the question.
SpecClose ==
    /\ InitLaunch
    /\ [][NextClose]_vars
    /\ WF_vars(TerminateNext)
    /\ WF_vars(FinishClosing)


\* ------------------------------------------ the main window's own handlers
\* The first part of load_last_selected_game: get_last_selected_game, which
\* takes the lock when the file exists and has released it when it returns.
LoadLastSelected(i) ==
    /\ pc[i] = "start"
    /\ file.st = "absent" \/ LockFree
    /\ lock' = IF file.st = "absent" THEN lock ELSE Release(i, i)
    /\ LET last_game == get_last_selected_game
       IN  IF last_game.found
           THEN /\ pc' = [pc EXCEPT ![i] = "start2"]
                /\ op' = [op EXCEPT ![i] = [NoOp EXCEPT !.kind = "loadLast",
                                                        !.path = last_game.path]]
                /\ UNCHANGED label
           ELSE /\ pc' = [pc EXCEPT ![i] = "idle"]
                /\ label' = [label EXCEPT ![i] = Shown(NoGameLabel)]
                /\ UNCHANGED op
    /\ UNCHANGED <<file, nextId, games, outcome, pre, selectOpen,
                   current_games, deleted, launchVars>>

\* The name load_last_selected_game shows: that of the first selected record
\* with the path, else the file name of the path without its extension.
LastSelectedName(list, path) ==
    IF \E k \in DOMAIN list : list[k].path = path /\ list[k].sel
    THEN LET k == CHOOSE k \in DOMAIN list :
                     /\ list[k].path = path /\ list[k].sel
                     /\ \A j \in 1..(k - 1) : ~(list[j].path = path /\ list[j].sel)
         IN  list[k].name
    ELSE path_stem(path)

\* The second part of load_last_selected_game: a with block of its own, in
\* which the file is read again for the name.
LoadLastSelectedName(i) ==
    /\ pc[i] = "start2"
    /\ LockFree
    /\ lock' = Release(i, i)
    /\ label' = [label EXCEPT ![i] = Shown(LastSelectedName(ReadGames, op[i].path))]
    /\ pc' = [pc EXCEPT ![i] = "idle"]
    /\ op' = [op EXCEPT ![i] = NoOp]
    /\ UNCHANGED <<file, nextId, games, outcome, pre, selectOpen,
                   current_games, deleted, launchVars>>

\* The record AdaptiveApp.open_game_settings picks for the label's text: the
\* selected record of that name, else the first of that name; 0 for none.
TargetGame(list, current_name) ==
    IF \E k \in DOMAIN list : list[k].name = current_name /\ list[k].sel
    THEN CHOOSE k \in DOMAIN list :
            /\ list[k].name = current_name /\ list[k].sel
            /\ \A j \in 1..(k - 1) : ~(list[j].name = current_name /\ list[j].sel)
    ELSE IF \E k \in DOMAIN list : list[k].name = current_name
    THEN CHOOSE k \in DOMAIN list :
            /\ list[k].name = current_name
            /\ \A j \in 1..(k - 1) : list[j].name # current_name
    ELSE 0

\* AdaptiveApp.open_game_settings: the file is read and the settings window
\* is built inside the with block; the window stays open when the handler
\* returns and the lock is released.
OpenGameSettings(i) ==
    /\ Idle(i)
    /\ ~selectOpen[i]
    /\ label[i].text # NoGameLabel
    /\ file.st # "absent"
    /\ LockFree
    /\ lock' = Release(i, i)
    /\ LET target == TargetGame(ReadGames, label[i].text)
       IN  IF target = 0
           THEN UNCHANGED <<pc, op>>
           ELSE /\ pc' = [pc EXCEPT ![i] = "settings"]
                /\ op' = [op EXCEPT ![i] =
                       [NoOp EXCEPT !.kind = "update", !.id = ReadGames[target].id,
                                    !.orig = ReadGames[target].name]]
    /\ outcome' = [outcome EXCEPT ![i] = "none"]
    /\ UNCHANGED <<file, nextId, games, pre, selectOpen, current_games,
                   deleted, launchVars, label>>

\* save_settings of the settings window that the main window opened.
SaveFromMain(i) ==
    /\ pc[i] = "settings"
    /\ \E g \in GameFiles :
          LET o == [op[i] EXCEPT !.name = g.name, !.path = abspath(g.path),
                                 !.md5 = get_file_md5(g.st)]
          IN  /\ Acquire(i, o)
              /\ UNCHANGED nextId
              /\ Save(i, o)

\* The cancel button of the settings window.
CancelSettings(i) ==
    /\ pc[i] = "settings"
    /\ pc' = [pc EXCEPT ![i] = "idle"]
    /\ op' = [op EXCEPT ![i] = NoOp]
    /\ UNCHANGED <<file, lock, nextId, games, outcome, pre, selectOpen,
                   current_games, deleted, launchVars, label>>

\* The launcher is closed (on_closing with an empty registry destroys the
\* windows) and started again.
Restart(i) ==
    /\ Idle(i)
    /\ GAME_PROCESSES = <<>>
    /\ pc' = [pc EXCEPT ![i] = "start"]
    /\ selectOpen' = [selectOpen EXCEPT ![i] = FALSE]
    /\ current_games' = [current_games EXCEPT ![i] = <<>>]
    /\ outcome' = [outcome EXCEPT ![i] = "none"]
    /\ label' = [label EXCEPT ![i] = NoLabel]
    /\ UNCHANGED <<file, lock, nextId, op, games, pre, deleted, launchVars>>

\* A launcher is started where no catalog file exists yet.
InitMain ==
    /\ file = AbsentFile
    /\ lock = 0
    /\ nextId = 1
    /\ pc = [i \in Inst |-> IF i = 1 THEN "start" ELSE "idle"]
    /\ op = [i \in Inst |-> NoOp]
    /\ games = [i \in Inst |-> <<>>]
    /\ outcome = [i \in Inst |-> "none"]
    /\ pre = [i \in Inst |-> AbsentFile]
    /\ selectOpen = [i \in Inst |-> FALSE]
    /\ current_games = [i \in Inst |-> <<>>]
    /\ deleted = {}
    /\ GAME_PROCESSES = <<>>
    /\ browserTabs = <<>>
    /\ launches = 0
    /\ lastLaunch = NoLaunch
    /\ startedExe = <<>>
    /\ closeLog = <<>>
    /\ label = [i \in Inst |-> NoLabel]

\* The one running launcher, through every handler that takes the lock.
NextMain ==
    \/ LoadLastSelected(1)
    \/ LoadLastSelectedName(1)
    \/ OpenSelect(1)
    \/ CloseSelect(1)
    \/ BeginImport(1)
    \/ AnswerDup(1)
    \/ BeginSelect(1)
    \/ BeginUpdate(1)
    \/ BeginDelete(1)
    \/ WriteOk(1)
    \/ WritePermissionError(1)
    \/ ExitLabelled(1)
    \/ ReloadLabelled(1)
    \/ OpenGameSettings(1)
    \/ SaveFromMain(1)
    \/ CancelSettings(1)
    \/ Restart(1)

SpecMain == InitMain /\ [][NextMain]_vars


\* =================================================================== claims
\* Instance i is inside the with block of a catalog handler.
InLocked(i) == pc[i] \in {"askCorrupt", "askDup", "write", "exit"}

\* Instance i commits its operation in this step.
Commits(i) == pc[i] = "write" /\ outcome'[i] = "ok"

\* C1: every catalog operation reads and writes the file inside one hold of
\* the lock, and the file changes only by a successful operation applied to
\* the catalog as the operations committed before it left it: the final
\* catalog is the successful operations applied one after another, in commit
\* order.
C1_SerialOrder ==
    /\ [](\A i \in Inst : InLocked(i) => lock = i /\ (pc[i] # "exit" => pre[i] = file))
    /\ [][file' # file =>
            \E i \in Inst : /\ Commits(i)
                            /\ file' = OkFile(Apply(op[i], ReadGames))]_vars


\* The operation of instance i has left its locked section with outcome o and
\* still holds the lock.
Ended(i, kind, o) == pc[i] = "exit" /\ op[i].kind = kind /\ outcome[i] = o

SelectedIn(list) == {k \in DOMAIN list : list[k].sel}

\* C2: at most one record of the on-disk catalog is selected.
C2_AtMostOneSelected == Cardinality(SelectedIn(file.recs)) <= 1

\* A selection has moved the flag from one record of a two-record catalog to
\* the other.
C2_Witness ==
    \E i \in Inst :
        /\ Ended(i, "select", "ok")
        /\ \E k \in SelectedIn(pre[i].recs) : pre[i].recs[k].id # op[i].id
        /\ \E k \in SelectedIn(file.recs) : file.recs[k].id = op[i].id

\* C3: when selectGame(id) ends without an error, the file holds a record with
\* that id, it is selected, and getSelected returns its path and hash.
C3_SelectedAfterSelect ==
    \A i \in Inst :
        Ended(i, "select", "ok") =>
            \E k \in DOMAIN file.recs :
                /\ file.recs[k].id = op[i].id
                /\ file.recs[k].sel
                /\ FirstSelected(file.recs) =
                       [found |-> TRUE, path |-> file.recs[k].path,
                        md5 |-> file.recs[k].md5]

\* C4: an operation that ends with an error leaves the file as it was when the
\* operation read it, a successful one leaves the complete new list, and the
\* file is never a truncated or partly written catalog.
C4_AllOrNothing ==
    /\ file.st # "corrupt"
    /\ \A i \in Inst :
          pc[i] = "exit" =>
              IF outcome[i] = "ok" THEN file = OkFile(games[i]) ELSE file = pre[i]

RemoveAt(list, k) == SubSeq(list, 1, k - 1) \o SubSeq(list, k + 1, Len(list))

C6_NotFoundNoWrite ==
    \A i \in Inst :
        (InLocked(i) /\ op[i].kind \in {"update", "delete"}
                     /\ op[i].id \notin Ids(pre[i].recs)) =>
            /\ pc[i] = "exit"
            /\ file = pre[i]
            /\ pre[i].st # "corrupt" => outcome[i] = "NotFound"

\* An update of a record that another instance has deleted ends with NotFound.
C6_Witness ==
    \E i \in Inst :
        /\ Ended(i, "update", "NotFound")
        /\ op[i].id \in deleted
        /\ pre[i].st = "ok"

\* C7: a successful update changes the name, path and hash of the record with
\* the id and nothing else: same length, same order, same id and selection
\* flag, every other record as it was.
C7_UpdateFrame ==
    \A i \in Inst :
        Ended(i, "update", "ok") =>
            /\ Len(file.recs) = Len(pre[i].recs)
            /\ \E k \in DOMAIN pre[i].recs : pre[i].recs[k].id = op[i].id
            /\ \A k \in DOMAIN pre[i].recs :
                  IF pre[i].recs[k].id = op[i].id
                  THEN file.recs[k] =
                         [id |-> pre[i].recs[k].id, name |-> op[i].name,
                          path |-> op[i].path, md5 |-> op[i].md5,
                          sel |-> pre[i].recs[k].sel]
                  ELSE file.recs[k] = pre[i].recs[k]

\* The selected second record of a two-record catalog got a new name and path.
C7_Witness ==
    \E i \in Inst :
        /\ Ended(i, "update", "ok")
        /\ Len(pre[i].recs) = 2
        /\ pre[i].recs[2].id = op[i].id
        /\ pre[i].recs[2].sel
        /\ pre[i].recs[2].name # op[i].name
        /\ pre[i].recs[2].path # op[i].path


\* This step is a call of start_game.
Launches == launches' = launches + 1

\* C8: a launch of an existing file whose stored digest is present and differs
\* from the file's current hash (None included, when the file cannot be read)
\* returns -3 (IntegrityMismatch) and starts nothing: no handle is added to the
\* registry and no page is opened.
C8_MismatchStartsNothing ==
    [][(/\ Launches
        /\ path_exists(lastLaunch'.st)
        /\ Md5Present(lastLaunch'.md5)
        /\ get_file_md5(lastLaunch'.st) # lastLaunch'.md5) =>
           /\ lastLaunch'.result = -3
           /\ GAME_PROCESSES' = GAME_PROCESSES
           /\ browserTabs' = browserTabs]_vars

\* After one game was started, a launch of an unreadable file with a stored
\* digest was refused.
C8_Witness ==
    /\ lastLaunch.result = -3
    /\ lastLaunch.st = "unreadable"
    /\ Md5Present(lastLaunch.md5)
    /\ Len(GAME_PROCESSES) = 1
    /\ launches = 2

\* The result the launch order of the claim gives.
ClaimedResult(l) ==
    IF ~path_exists(l.st) THEN -2
    ELSE IF Md5Present(l.md5) /\ get_file_md5(l.st) # l.md5 THEN -3
    ELSE IF l.env = "ok" THEN 1
    ELSE -1

\* C9: launch returns FileMissing when the file does not exist, else
\* IntegrityMismatch when a stored digest differs from the current hash, else
\* Started when the spawn or the open succeeded and LaunchFailed when it did
\* not.
C9_ResultOrder == launches > 0 => lastLaunch.result = ClaimedResult(lastLaunch)

\* C10: the registry holds exactly the launches of non-HTML files that
\* returned 1 (Started), in launch order; nothing else adds a handle and none
\* is removed.
C10_RegistryIsStartedExe == GAME_PROCESSES = startedExe

\* The first and the third launch started programs, the second opened a page.
C10_Witness ==
    /\ GAME_PROCESSES = <<1, 3>>
    /\ browserTabs = <<2>>


\* The handles closeLog names, in the order they were taken.
Handles(log) == [k \in DOMAIN log |-> log[k].proc]

\* C11 as stated: once the main window is destroyed, every handle of the
\* registry was sent terminate and then waited for, and a shutdown that has
\* started on the registry always reaches the destroyed main window.
C11_EveryHandleTerminated ==
    /\ [](pc[1] = "destroyed" =>
             /\ Handles(closeLog) = GAME_PROCESSES
             /\ \A k \in DOMAIN closeLog : closeLog[k].terminate)
    /\ (pc[1] = "terminating") ~> (pc[1] = "destroyed")

\* C11 amended: when the user answers yes, terminate is called on every
\* handle of the registry, in registry order, and the bounded wait follows
\* each terminate that returned; the main window is destroyed only after the
\* last handle, and it always is, whatever terminate and wait did.  When the
\* user answers no, no handle is touched.
C11_ShutdownCompletes ==
    /\ [](pc[1] \in {"terminating", "destroyed"} =>
             /\ Len(closeLog) <= Len(GAME_PROCESSES)
             /\ Handles(closeLog) = SubSeq(GAME_PROCESSES, 1, Len(closeLog))
             /\ \A k \in DOMAIN closeLog :
                   /\ closeLog[k].terminate
                   /\ closeLog[k].wait <=> closeLog[k].out # "terminateRaised")
    /\ [][(pc[1] = "terminating" /\ pc'[1] = "destroyed") =>
             Handles(closeLog) = GAME_PROCESSES]_vars
    /\ [][(pc[1] = "askClose" /\ pc'[1] = "destroyed") =>
             closeLog' = <<>>]_vars
    /\ (pc[1] = "terminating") ~> (pc[1] = "destroyed")

\* The windows are gone after terminate raised for the first of two started
\* programs and the wait for the second timed out.
C11_Witness ==
    /\ pc[1] = "destroyed"
    /\ Len(GAME_PROCESSES) = 2
    /\ Len(closeLog) = 2
    /\ closeLog[1].out = "terminateRaised"
    /\ closeLog[2].out = "TimeoutExpired"


\* Instance i starts a catalog operation in this step: a listing (the Select
\* window opens, or a handler reloads the list), or a handler that ends with
\* a result.
Starts(i) ==
    \/ ~selectOpen[i] /\ selectOpen'[i]
    \/ pc[i] = "refresh" /\ pc'[i] = "idle"
    \/ pc[i] = "idle" /\ <<op'[i], outcome'[i]>> # <<op[i], outcome[i]>>
                      /\ selectOpen'[i] = selectOpen[i]

\* The operation instance i starts in this step ends with LockTimeout and has
\* neither read nor written the catalog file.
TimesOut(i) ==
    /\ outcome'[i] = "LockTimeout"
    /\ pc'[i] = "idle"
    /\ file' = file
    /\ games'[i] = <<>>
    /\ current_games'[i] \in {<<>>, current_games[i]}

\* C12 as stated: every catalog operation started while another instance
\* holds the lock ends with LockTimeout, without reading or writing the file.
C12_TimeoutWhenHeld ==
    [][\A i \in Inst : (HeldByOther(i) /\ Starts(i)) => TimesOut(i)]_vars

\* C12 amended: as stated, except that a listing of a catalog file that does
\* not exist asks for no lock: it ends at once with the empty list, whoever
\* holds the lock.
C12_TimeoutWhenHeldAndFilePresent ==
    [][\A i \in Inst :
          (HeldByOther(i) /\ Starts(i)) =>
              \/ TimesOut(i)
              \/ /\ file.st = "absent"
                 /\ ~selectOpen[i] /\ selectOpen'[i]
                 /\ current_games'[i] = <<>>
                 /\ outcome'[i] = "none"
                 /\ file' = file]_vars

\* Instance 2 waits for its user's answer with the lock held, and an update
\* that instance 1 started on its list has ended with LockTimeout.
C12_Witness ==
    /\ pc[2] = "askDup"
    /\ lock = 2
    /\ current_games[1] # <<>>
    /\ op[1].kind = "update"
    /\ outcome[1] = "LockTimeout"


\* The place of the record with this id in the file.
Position(recs, id) == CHOOSE k \in DOMAIN recs : recs[k].id = id

\* C13: a list that load_games has built holds every record of the file
\* exactly once, the selected record (if any) first and the others in the
\* order of the file.
C13_ListOrder ==
    [][\A i \in Inst :
          (current_games'[i] # <<>> /\ current_games'[i] # current_games[i]) =>
              LET list == current_games'[i]
                  recs == file.recs
                  Unselected(j) == \E k \in DOMAIN recs :
                                      recs[k].id = list[j].id /\ ~recs[k].sel
              IN  /\ Len(list) = Len(recs)
                  /\ \A k \in DOMAIN recs :
                        Cardinality({j \in DOMAIN list :
                                        list[j] = Entry(recs[k])}) = 1
                  /\ \A k \in DOMAIN recs :
                        recs[k].sel => list[1] = Entry(recs[k])
                  /\ \A j1, j2 \in DOMAIN list :
                        (j1 < j2 /\ Unselected(j1) /\ Unselected(j2)) =>
                            Position(recs, list[j1].id) < Position(recs, list[j2].id)]_vars

\* The third of three records is selected and the list shows it first, then
\* the first and the second.
C13_Witness ==
    /\ file.st = "ok"
    /\ Len(file.recs) = 3
    /\ file.recs[3].sel
    /\ Len(current_games[1]) = 3
    /\ current_games[1][1].id = file.recs[3].id
    /\ current_games[1][2].id = file.recs[1].id
    /\ current_games[1][3].id = file.recs[2].id


\* C14: a successful import leaves the catalog it read with one record added
\* at the end: the name, path and hash given, not selected, under an id that
\* no record of the catalog had; every other record, the selected one
\* included, is as it was.  A name that a record already has does not stand
\* in the way.
C14_ImportAppends ==
    \A i \in Inst :
        Ended(i, "import", "ok") =>
            LET old == pre[i].recs
                n == Len(old) + 1
            IN  /\ file.st = "ok"
                /\ Len(file.recs) = n
                /\ SubSeq(file.recs, 1, n - 1) = old
                /\ SelectedIn(file.recs) = SelectedIn(old)
                /\ file.recs[n] = [id |-> op[i].id, name |-> op[i].name,
                                   path |-> op[i].path, md5 |-> op[i].md5,
                                   sel |-> FALSE]
                /\ file.recs[n].id \notin Ids(old)

\* An import under the name of the selected record has succeeded: the file
\* holds two records with one name and two ids, the first still selected.
C14_Witness ==
    \E i \in Inst :
        /\ Ended(i, "import", "ok")
        /\ Len(file.recs) = 2
        /\ file.recs[1].name = file.recs[2].name
        /\ file.recs[1].id # file.recs[2].id
        /\ file.recs[1].sel


\* C15: the path of every record of the on-disk catalog is an absolute path.
C15_PathsAbsolute == \A k \in DOMAIN file.recs : isabs(file.recs[k].path)


\* C16: a record is listed under the same id by every later listing, and the
\* id of a listed entry handed to select, update or delete is the id of the
\* record of the file that the entry was built from; this includes a record
\* whose id field is missing in the file.
C16_ListedIdIdentifies ==
    /\ [][\A i \in Inst :
            (/\ current_games[i] # <<>>
             /\ current_games'[i] # <<>>
             /\ file' = file) =>
                Ids(current_games'[i]) = Ids(current_games[i])]_vars
    /\ [](\A i \in Inst :
            (InLocked(i) /\ op[i].kind \in {"select", "update", "delete"}) =>
                \E k \in DOMAIN pre[i].recs :
                    /\ pre[i].recs[k].id = op[i].id
                    /\ pre[i].recs[k].name = op[i].orig)


\* C17: an instance that holds the lock never waits for an answer from its
\* user.
C17_NoQuestionUnderLock ==
    \A i \in Inst : lock = i => pc[i] \notin {"askCorrupt", "askDup"}


\* Instance i's next step can be one that asks for the lock: the start of a
\* handler, the second read of load_last_selected_game, the reload at the end
\* of a handler, a save of the open settings window.
AsksNext(i) == pc[i] \in {"start", "start2", "idle", "refresh", "settings"}

\* C18: wherever an instance can ask for the lock it does not hold it, and no
\* operation of a launcher that runs alone ends with LockTimeout.
C18_NeverAsksWhileHolding ==
    \A i \in Inst : AsksNext(i) => (lock # i /\ outcome[i] # "LockTimeout")

\* A launcher started on a catalog with a selected game is between the two
\* reads of load_last_selected_game, and the lock is free.
C18_Witness ==
    /\ pc[1] = "start2"
    /\ lock = 0
    /\ op[1].path # ""
    /\ \E k \in DOMAIN file.recs : file.recs[k].sel


\* The name of the record that start_selected_game launches, the text of the
\* empty label when there is none.
SelectedName(list) ==
    IF SelectedIn(list) = {} THEN NoGameLabel
    ELSE list[CHOOSE k \in SelectedIn(list) : \A j \in SelectedIn(list) : k <= j].name

\* C19: when no handler of the launcher is running, the label of its main
\* window shows the name of the selected record, and 'no game selected'
\* exactly when no record is selected.
C19_LabelAgrees ==
    Idle(1) =>
        /\ label[1].text = SelectedName(ReadGames)
        /\ label[1].text = NoGameLabel <=> SelectedIn(ReadGames) = {}

====
